---- MODULE Spec2Model ----
(***************************************************************************)
(* Session and mode-control protocol of BTgymEnv (btgym/envs/backtrader.py) *)
(* The client (BTgymEnv) is one sequential thread; it talks to a worker     *)
(* process (BTgymServer) over one REQ/REP channel.  Every client method is  *)
(* cut into steps at its blocking points (each recv_pyobj), so that the     *)
(* worker's reply, its crash and its asynchronous exit interleave with the  *)
(* client as they do between two OS processes.                              *)
(***************************************************************************)
EXTENDS Integers, Sequences, FiniteSets, TLC

VARIABLES
    server,           \* self.server: "None" or "Proc" (a BTgymServer handle)
    context,          \* self.context: "None", "open" or "closed" (destroyed)
    socket,           \* self.socket: "None", "open" or "closed"
    server_response,  \* self.server_response
    pc,               \* position of the client thread
    stack,            \* return labels of the methods being executed
    ret,              \* return value of the method that returned last
    attempt,          \* local of _force_control_mode (only logged; 0 outside it)
    alive,            \* self.server.is_alive(): the worker process runs
    wmode,            \* worker mode: "NONE", "CONTROL", "EPISODE", "EXITING"
    kind,             \* behaviour of the spawned worker
    closeLeft,        \* terminate requests the running episode still answers without marker
    steps,            \* actions the worker applied in the running episode
    stat,             \* summary of the last terminated episode
    others,           \* live workers spawned earlier, which self.server no longer names
    req,              \* request in flight, "none" if there is none
    rep,              \* reply in flight, NoMsg if there is none
    call,             \* the running (or last) top-level call and the state it began in
    result,           \* outcome of that call
    log,              \* requests sent during that call
    fault,            \* a worker crash or a transport error happened during that call
    prev              \* the call completed before that one

vars == <<server, context, socket, server_response, pc, stack,
          ret, attempt, alive, wmode, kind, closeLeft, steps, stat, others,
          req, rep,
          call, result, log, fault, prev>>

clientVars == <<server, context, socket, server_response, pc, stack, ret, attempt>>
workerVars == <<alive, wmode, kind, closeLeft, steps, stat, others>>
histVars   == <<call, result, prev>>

(***************************** bounds ***************************************)
\* most terminate-episode requests a conforming worker answers without the marker
MaxClose == 1
\* the worker's step counter saturates here
MaxSteps == 2
\* summaries are drawn from 1..MaxStat
MaxStat == 2
\* attempt (a logged counter) and the log of a call saturate here
MaxLog == MaxClose + 8

(***************************** constants ************************************)
portfolio_actions == <<"hold", "buy", "sell", "close">>

server_actions == portfolio_actions \o <<"_done", "_reset", "_stop", "_getstat">>

\* shape of self.observation_space: (state_dim_0, state_dim_time)
observation_space_shape == <<4, 10>>

\* actions the callers try: the vocabulary and values around its ends
Actions == -1 .. Len(portfolio_actions) + 1

\* a shape a misconfigured strategy produces
OtherShape == <<4, 30>>

(***************************** values ***************************************)
\* Python values that travel over the channel or are returned, as one record type
Mk(t, x, n, sh, d, v) ==
    [type |-> t, text |-> x, len |-> n, shape |-> sh, done |-> d, val |-> v]

Str(x) == Mk("str", x, 0, <<>>, FALSE, 0)

None == Mk("None", "", 0, <<>>, FALSE, 0)

Bool(b) == Mk("bool", "", 0, <<>>, FALSE, IF b THEN 1 ELSE 0)

\* the episode tuple (observation, reward, done, info); shape is the observation's
Tuple(sh, d) == Mk("tuple", "", 4, sh, d, 0)

\* the first element of an episode tuple: the observation array
Obs(sh) == Mk("ndarray", "", 0, sh, FALSE, 0)

\* an episode summary
Stats(v) == Mk("stats", "", 0, <<>>, FALSE, v)

Exc(x) == Mk("exception", x, 0, <<>>, FALSE, 0)

NoMsg == Mk("none", "", 0, <<>>, FALSE, 0)

\* mutant: whatever is not an episode tuple counts as the marker
HasMarker_nottuple(r) == r.type # "tuple"

\* mutant: any status text counts as the marker
HasMarker_anytext(r) == r.type = "str"

\* 'CONTROL_MODE' in str(response)
HasMarker(r) == r.type = "str" /\ r.text = "CONTROL_MODE"

Min(a, b) == IF a < b THEN a ELSE b

(***************************** worker ***************************************)
Kinds == {"conforming", "nomarker", "badshape"}

\* the status text of a worker in CONTROL; the stub never emits the marker
ControlText(k) == IF k = "nomarker" THEN Str("ack") ELSE Str("CONTROL_MODE")

WorkerShape(k) == IF k = "badshape" THEN OtherShape ELSE observation_space_shape

ActionNames == {portfolio_actions[i] : i \in 1..Len(portfolio_actions)}

\* What a worker of kind k in mode m does with request r: its next mode, episode
\* counters and summary, and its reply.  c and s are the worker's free choices:
\* the length of the close sequence and the summary.  The episode's data ends
\* (done) with step MaxSteps.
Serve(k, m, cl, st, sm, r, c, s) ==
    LET same == [mode |-> m, closeLeft |-> cl, steps |-> st, stat |-> sm] IN
    CASE m = "CONTROL" /\ r = "_reset" ->
            [mode |-> "EPISODE", closeLeft |-> c, steps |-> 0, stat |-> sm,
             rep |-> Str("ack_reset")]
      [] m = "CONTROL" /\ r = "_getstat" ->
            same @@ [rep |-> Stats(sm)]
      [] m = "CONTROL" /\ r = "_stop" ->
            [mode |-> "EXITING", closeLeft |-> cl, steps |-> st, stat |-> sm,
             rep |-> Str("ack_stop")]
      [] m = "CONTROL" /\ r \notin {"_reset", "_getstat", "_stop"} ->
            same @@ [rep |-> ControlText(k)]
      [] m = "EPISODE" /\ r \in ActionNames ->
            [mode |-> m, closeLeft |-> cl, steps |-> Min(st + 1, MaxSteps), stat |-> sm,
             rep |-> Tuple(WorkerShape(k), st + 1 >= MaxSteps)]
      [] m = "EPISODE" /\ r = "_done" /\ cl > 0 ->
            [mode |-> m, closeLeft |-> cl - 1, steps |-> st, stat |-> sm,
             rep |-> Str("closing")]
      [] m = "EPISODE" /\ r = "_done" /\ cl = 0 ->
            [mode |-> "CONTROL", closeLeft |-> 0, steps |-> st, stat |-> s,
             rep |-> ControlText(k)]
      [] OTHER ->
            same @@ [rep |-> Str("ignored")]

\* the worker takes the request in flight and replies
WorkerReply ==
    /\ alive /\ req # "none" /\ wmode \in {"CONTROL", "EPISODE"}
    /\ \E c \in 0..MaxClose, s \in 1..MaxStat :
          LET o == Serve(kind, wmode, closeLeft, steps, stat, req, c, s) IN
          /\ wmode' = o.mode
          /\ closeLeft' = o.closeLeft
          /\ steps' = o.steps
          /\ stat' = o.stat
          /\ rep' = o.rep
    /\ req' = "none"
    /\ UNCHANGED <<clientVars, histVars, alive, kind, others, log, fault>>

\* the worker process ends after it acknowledged shutdown-worker
WorkerExit ==
    /\ alive /\ wmode = "EXITING"
    /\ alive' = FALSE
    /\ UNCHANGED <<clientVars, histVars, wmode, kind, closeLeft, steps, stat,
                   others, req, rep, log, fault>>

\* the worker process dies without client action
WorkerCrash ==
    /\ alive /\ wmode \in {"CONTROL", "EPISODE"}
    /\ alive' = FALSE
    /\ fault' = TRUE
    /\ UNCHANGED <<clientVars, histVars, wmode, kind, closeLeft, steps, stat,
                   others, req, rep, log>>

(***************************** client helpers ********************************)
\* socket.send_pyobj(m): the request leaves; the call's log records it
Send(m) ==
    /\ req' = m
    /\ log' = IF Len(log) < MaxLog THEN Append(log, m) ELSE log

\* return v from the running method to its caller, or to the user
Return(v) ==
    /\ ret' = v
    /\ IF stack = <<>>
       THEN /\ pc' = "idle"
            /\ stack' = stack
            /\ result' = [kind |-> "value", val |-> v]
       ELSE /\ pc' = Head(stack)
            /\ stack' = Tail(stack)
            /\ result' = result

\* raise e: no method of the class catches an exception of a callee, so it
\* reaches the user
Raise(e) ==
    /\ pc' = "idle"
    /\ stack' = <<>>
    /\ ret' = None
    /\ result' = [kind |-> "raise", val |-> e]

\* call the method at label m, to continue at label k
Invoke(m, k) ==
    /\ pc' = m
    /\ stack' = <<k>> \o stack
    /\ ret' = ret
    /\ result' = result

Goto(l) ==
    /\ pc' = l
    /\ UNCHANGED <<stack, ret, result>>

\* the user calls a method: the state the call begins in is recorded
Begin(op, arg, l) ==
    /\ pc = "idle"
    /\ pc' = l
    /\ stack' = <<>>
    /\ prev' = [op |-> call.op, ok |-> result.kind = "value"]
    /\ call' = [op |-> op, arg |-> arg, alive |-> alive, wmode |-> wmode,
                context |-> context]
    /\ result' = [kind |-> "pending", val |-> None]
    /\ ret' = None
    /\ log' = <<>>
    /\ fault' = FALSE
    /\ UNCHANGED <<server, context, socket, server_response, attempt,
                   workerVars, req, rep>>

\* mutant: _reset steps with action 1
action_buy == IF call.op = "step" THEN call.arg ELSE 1

\* the argument of the running _step: the user's, or the 0 of line 319
action == IF call.op = "step" THEN call.arg ELSE 0

\* the argument of the running _reset
state_only == call.arg

\* context.destroy(): the context is terminated and its sockets are closed
DestroyedSocket == IF socket = "open" THEN "closed" ELSE socket

\* mutant: the upper end of the action space is included
ActionSpaceContains_inclusive(a) == a \in 0 .. Len(portfolio_actions)

\* gym.spaces.Discrete(len(portfolio_actions)).contains(a)
ActionSpaceContains(a) == a \in 0 .. Len(portfolio_actions) - 1

\* self.socket and not self.socket.closed
SocketUsable == socket = "open"

\* mutant: the reply is not checked
IsEpisodeTuple_unchecked(r) == r.type \in {"tuple", "str", "stats"}

\* type(response) == tuple and len(response) == 4
IsEpisodeTuple(r) == r.type = "tuple" /\ r.len = 4

\* mutant: only the number of dimensions is compared
ShapeMatches_rank(r) == Len(r.shape) = Len(observation_space_shape)

\* response[0].shape == self.observation_space.shape
ShapeMatches(r) == r.shape = observation_space_shape

\* mutant: only the handle is tested, not the process
NoRunningServer_handleonly == server = "None"

\* not self.server or not self.server.is_alive()
NoRunningServer == server = "None" \/ ~alive

\* mutant: a destroyed context still counts as a connection
NoNetworkConnection_nullonly == context = "None"

\* not self.context or self.context.closed
NoNetworkConnection == context = "None" \/ context = "closed"

(***************************** _start_server ********************************)
\* mutant: the port is not reclaimed
KillPortHolders_skipped(n) == n

\* lines 223-224, kill $( lsof -i:port -t ): of n live workers of this session,
\* each holding the server port as long as its process runs, the number left
KillPortHolders(n) == 0

Call_start ==
    Begin("start", None, "start_server")

\* lines 216-242: release the client side, kill whatever holds the port, open a
\* new context and socket, spawn the worker, send the probe
start_server ==
    /\ pc = "start_server"
    /\ context' = "open"
    /\ socket' = "open"
    /\ server' = "Proc"
    /\ alive' = TRUE
    /\ wmode' = "CONTROL"
    /\ kind' \in Kinds
    /\ closeLeft' = 0
    /\ steps' = 0
    /\ stat' = 0
    /\ others' = KillPortHolders(others + IF alive THEN 1 ELSE 0)
    /\ Send("ping!")
    /\ rep' = NoMsg
    /\ Goto("start_server_recv")
    /\ UNCHANGED <<server_response, attempt, call, fault, prev>>

\* mutant: the reply to the probe is not awaited
start_server_recv_unawaited ==
    /\ pc = "start_server_recv"
    /\ Return(None)
    /\ UNCHANGED <<server, context, socket, server_response, attempt, workerVars,
                   req, rep, call, log, fault, prev>>

\* line 243
start_server_recv ==
    /\ pc = "start_server_recv"
    /\ rep # NoMsg
    /\ server_response' = rep
    /\ rep' = NoMsg
    /\ Return(None)
    /\ UNCHANGED <<server, context, socket, attempt, workerVars,
                   req, call, log, fault, prev>>

(***************************** _force_control_mode **************************)
\* lines 279-295: the two checks; if both pass, the first '_done' is sent
\* (the loop test on 'NONE' is true)
force_control_mode ==
    /\ pc = "force_control_mode"
    /\ IF NoRunningServer
       THEN /\ server_response' = Str("No running server found.")
            /\ Return(Bool(FALSE))
            /\ UNCHANGED <<attempt, req, log>>
       ELSE IF NoNetworkConnection
       THEN /\ server_response' = Str("No network connection found.")
            /\ Return(Bool(FALSE))
            /\ UNCHANGED <<attempt, req, log>>
       ELSE /\ server_response' = Str("NONE")
            /\ attempt' = 0
            /\ Send("_done")
            /\ Goto("force_control_mode_recv")
    /\ UNCHANGED <<server, context, socket, workerVars, rep,
                   call, fault, prev>>

\* lines 296-298, then the loop test of line 294: send again or return True
force_control_mode_recv ==
    /\ pc = "force_control_mode_recv"
    /\ rep # NoMsg
    /\ server_response' = rep
    /\ rep' = NoMsg
    /\ IF HasMarker(rep)
       THEN /\ attempt' = 0
            /\ Return(Bool(TRUE))
            /\ UNCHANGED <<req, log>>
       ELSE /\ attempt' = Min(attempt + 1, MaxLog)
            /\ Send("_done")
            /\ Goto("force_control_mode_recv")
    /\ UNCHANGED <<server, context, socket, workerVars,
                   call, fault, prev>>

(***************************** _stop_server *********************************)
Call_stop ==
    Begin("stop", None, "stop_server")

\* lines 251-256
stop_server ==
    /\ pc = "stop_server"
    /\ IF server = "None"
       THEN Goto("stop_server_release")
       ELSE Invoke("force_control_mode", "stop_server_forced")
    /\ UNCHANGED <<server, context, socket, server_response, attempt, workerVars, req, rep, call, log, fault, prev>>

\* lines 256-264: graceful shutdown, or terminate and reap
stop_server_forced ==
    /\ pc = "stop_server_forced"
    /\ IF ret = Bool(TRUE)
       THEN /\ Send("_stop")
            /\ Goto("stop_server_recv")
            /\ UNCHANGED <<alive, server_response>>
       ELSE /\ alive' = FALSE
            /\ server_response' = Str("Server process terminated.")
            /\ Goto("stop_server_release")
            /\ UNCHANGED <<req, log>>
    /\ UNCHANGED <<server, context, socket, attempt, wmode, kind,
                   closeLeft, steps, stat, others, rep, call, fault, prev>>

\* line 259
stop_server_recv ==
    /\ pc = "stop_server_recv"
    /\ rep # NoMsg
    /\ server_response' = rep
    /\ rep' = NoMsg
    /\ Goto("stop_server_release")
    /\ UNCHANGED <<server, context, socket, attempt, workerVars,
                   req, call, log, fault, prev>>

\* lines 266-271: release the client side, if any
stop_server_release ==
    /\ pc = "stop_server_release"
    /\ IF context # "None"
       THEN /\ context' = "closed"
            /\ socket' = DestroyedSocket
       ELSE UNCHANGED <<context, socket>>
    /\ Return(None)
    /\ UNCHANGED <<server, server_response, attempt, workerVars,
                   req, rep, call, log, fault, prev>>

(***************************** _step ****************************************)
Call_step ==
    \E a \in Actions : Begin("step", a, "step")

\* lines 352-366
step ==
    /\ pc = "step"
    /\ IF ActionSpaceContains(action) /\ SocketUsable
       THEN /\ Send(server_actions[action + 1])
            /\ Goto("step_recv")
       ELSE /\ Raise(Exc("AssertionError: action or socket"))
            /\ UNCHANGED <<req, log>>
    /\ UNCHANGED <<server, context, socket, server_response, attempt, workerVars, rep, call, fault, prev>>

\* lines 367-380
step_recv ==
    /\ pc = "step_recv"
    /\ rep # NoMsg
    /\ server_response' = rep
    /\ rep' = NoMsg
    /\ IF IsEpisodeTuple(rep)
       THEN Return(rep)
       ELSE Raise(Exc("AssertionError: response"))
    /\ UNCHANGED <<server, context, socket, attempt, workerVars,
                   req, call, log, fault, prev>>

(***************************** _reset ***************************************)
Call_reset ==
    \E so \in BOOLEAN : Begin("reset", so, "reset")

\* lines 310-314: start the server if none runs, then force control mode
reset ==
    /\ pc = "reset"
    /\ IF NoRunningServer
       THEN Invoke("start_server", "reset_started")
       ELSE Invoke("force_control_mode", "reset_forced")
    /\ UNCHANGED <<server, context, socket, server_response, attempt, workerVars, req, rep, call, log, fault, prev>>

\* line 314, reached from _start_server
reset_started ==
    /\ pc = "reset_started"
    /\ Invoke("force_control_mode", "reset_forced")
    /\ UNCHANGED <<server, context, socket, server_response, attempt, workerVars, req, rep, call, log, fault, prev>>

\* lines 314-315 and 340-343
reset_forced ==
    /\ pc = "reset_forced"
    /\ IF ret = Bool(TRUE)
       THEN /\ Send("_reset")
            /\ Goto("reset_recv")
       ELSE /\ Raise(Exc("ChildProcessError"))
            /\ UNCHANGED <<req, log>>
    /\ UNCHANGED <<server, context, socket, server_response, attempt, workerVars, rep, call, fault, prev>>

\* lines 316-319: the acknowledgement, then self._step(0)
reset_recv ==
    /\ pc = "reset_recv"
    /\ rep # NoMsg
    /\ server_response' = rep
    /\ rep' = NoMsg
    /\ Invoke("step", "reset_step_ret")
    /\ UNCHANGED <<server, context, socket, attempt, workerVars,
                   req, call, log, fault, prev>>

\* lines 335-338
ResetValue(so, r) == IF so THEN Obs(r.shape) ELSE r

\* mutant: a mismatch raises without stopping the server
reset_step_ret_nostop ==
    /\ pc = "reset_step_ret"
    /\ server_response' = ret
    /\ IF ShapeMatches(ret)
       THEN Return(ResetValue(state_only, ret))
       ELSE Raise(Exc("AssertionError: shape"))
    /\ UNCHANGED <<server, context, socket, attempt, workerVars,
                   req, rep, call, log, fault, prev>>

\* lines 319-338: the shape check; a mismatch stops the server
reset_step_ret ==
    /\ pc = "reset_step_ret"
    /\ server_response' = ret
    /\ IF ShapeMatches(ret)
       THEN Return(ResetValue(state_only, ret))
       ELSE Invoke("stop_server", "reset_raise")
    /\ UNCHANGED <<server, context, socket, attempt, workerVars,
                   req, rep, call, log, fault, prev>>

\* line 333
reset_raise ==
    /\ pc = "reset_raise"
    /\ Raise(Exc("AssertionError: shape"))
    /\ UNCHANGED <<server, context, socket, server_response, attempt, workerVars, req, rep, call, log, fault, prev>>

(***************************** _close ***************************************)
Call_close ==
    Begin("close", None, "close")

\* line 387
close ==
    /\ pc = "close"
    /\ Invoke("force_control_mode", "close_ret")
    /\ UNCHANGED <<server, context, socket, server_response, attempt, workerVars, req, rep, call, log, fault, prev>>

close_ret ==
    /\ pc = "close_ret"
    /\ Return(None)
    /\ UNCHANGED <<server, context, socket, server_response, attempt, workerVars, req, rep, call, log, fault, prev>>

(***************************** get_stat *************************************)
Call_get_stat ==
    Begin("get_stat", None, "get_stat")

\* line 395
get_stat ==
    /\ pc = "get_stat"
    /\ Invoke("force_control_mode", "get_stat_forced")
    /\ UNCHANGED <<server, context, socket, server_response, attempt, workerVars, req, rep, call, log, fault, prev>>

\* lines 395-396 and 399-400
get_stat_forced ==
    /\ pc = "get_stat_forced"
    /\ IF ret = Bool(TRUE)
       THEN /\ Send("_getstat")
            /\ Goto("get_stat_recv")
       ELSE /\ Return(server_response)
            /\ UNCHANGED <<req, log>>
    /\ UNCHANGED <<server, context, socket, server_response, attempt, workerVars, rep, call, fault, prev>>

\* mutant: the stored response (the reply to '_done') is returned, as in line 400
GetStatValue_stored(r) == server_response

\* what line 397 returns: the reply just received
GetStatValue(r) == r

\* line 397
get_stat_recv ==
    /\ pc = "get_stat_recv"
    /\ rep # NoMsg
    /\ rep' = NoMsg
    /\ Return(GetStatValue(rep))
    /\ UNCHANGED <<server, context, socket, server_response, attempt, workerVars, req, call, log, fault, prev>>

(***************************** transport ************************************)
RecvLabels == {"start_server_recv", "force_control_mode_recv", "stop_server_recv",
               "reset_recv", "step_recv", "get_stat_recv"}

\* a round trip fails in the transport: recv_pyobj raises, the request or the
\* reply in flight is lost
ChannelError ==
    /\ pc \in RecvLabels
    /\ Raise(Exc("ZMQError"))
    /\ req' = "none"
    /\ rep' = NoMsg
    /\ fault' = TRUE
    /\ UNCHANGED <<server, context, socket, server_response, attempt, workerVars, call, log, prev>>

(***************************** specification ********************************)
\* lines 158-162: the state after __init__
Init ==
    /\ server = "None"
    /\ context = "None"
    /\ socket = "None"
    /\ server_response = None
    /\ pc = "idle"
    /\ stack = <<>>
    /\ ret = None
    /\ attempt = 0
    /\ alive = FALSE
    /\ wmode = "NONE"
    /\ kind = "conforming"
    /\ closeLeft = 0
    /\ steps = 0
    /\ stat = 0
    /\ others = 0
    /\ req = "none"
    /\ rep = NoMsg
    /\ call = [op |-> "__init__", arg |-> None, alive |-> FALSE, wmode |-> "NONE",
               context |-> "None"]
    /\ result = [kind |-> "value", val |-> None]
    /\ log = <<>>
    /\ fault = FALSE
    /\ prev = [op |-> "none", ok |-> TRUE]

Next ==
    \/ Call_start \/ start_server \/ start_server_recv
    \/ Call_stop \/ stop_server \/ stop_server_forced \/ stop_server_recv
    \/ stop_server_release
    \/ force_control_mode \/ force_control_mode_recv
    \/ Call_reset \/ reset \/ reset_started \/ reset_forced \/ reset_recv
    \/ reset_step_ret \/ reset_raise
    \/ Call_step \/ step \/ step_recv
    \/ Call_close \/ close \/ close_ret
    \/ Call_get_stat \/ get_stat \/ get_stat_forced \/ get_stat_recv
    \/ WorkerReply \/ WorkerExit \/ WorkerCrash
    \/ ChannelError

Spec == Init /\ [][Next]_vars

\* The client thread runs whenever it is not blocked in recv_pyobj, and a live
\* worker answers the request it holds.
ClientStep ==
    \/ start_server \/ start_server_recv
    \/ stop_server \/ stop_server_forced \/ stop_server_recv \/ stop_server_release
    \/ force_control_mode \/ force_control_mode_recv
    \/ reset \/ reset_started \/ reset_forced \/ reset_recv
    \/ reset_step_ret \/ reset_raise
    \/ step \/ step_recv
    \/ close \/ close_ret
    \/ get_stat \/ get_stat_forced \/ get_stat_recv

FairSpec == Spec /\ WF_vars(ClientStep) /\ WF_vars(WorkerReply)

(***************************** properties ***********************************)
\* the client side is consistent: the socket is open exactly when the context is
SocketFollowsContext == (socket = "open") <=> (context = "open")

\* the call has returned or raised
Finished(op) == pc = "idle" /\ call.op = op

\* a is an index of the action vocabulary
InVocabulary(a) == a + 1 \in DOMAIN portfolio_actions

\* C1: step(a) with a outside the action vocabulary sends nothing and leaves the
\* worker's mode as it was, in every state of the call, and ends with the
\* assertion error of line 363.
C1_InvalidActionSendsNothing ==
    (call.op = "step" /\ ~InVocabulary(call.arg)) =>
        /\ log = <<>>
        /\ req = "none"
        /\ wmode = call.wmode
        /\ pc = "idle" => result = [kind |-> "raise",
                                    val |-> Exc("AssertionError: action or socket")]

\* step(4), one past the vocabulary, has failed while a worker served an episode
\* over an open channel
C1_Witness ==
    /\ Finished("step") /\ call.arg = Len(portfolio_actions)
    /\ call.alive /\ call.wmode = "EPISODE" /\ call.context = "open"
    /\ result.kind = "raise"

\* C2: step(a) with a valid action, begun while the worker idles in CONTROL (as
\* it does on a freshly started session), ends with the assertion error of
\* line 375, unless the worker crashed or the transport failed meanwhile.
C2_StepInControlIsProtocolViolation ==
    (/\ Finished("step") /\ InVocabulary(call.arg)
     /\ call.alive /\ call.context = "open" /\ call.wmode = "CONTROL"
     /\ ~fault) =>
        result = [kind |-> "raise", val |-> Exc("AssertionError: response")]

\* the step right after a successful start has failed so
C2_Witness ==
    /\ Finished("step") /\ InVocabulary(call.arg)
    /\ prev = [op |-> "start", ok |-> TRUE]
    /\ call.alive /\ call.wmode = "CONTROL" /\ ~fault
    /\ result = [kind |-> "raise", val |-> Exc("AssertionError: response")]

\* C3: the step(a), a valid, that follows a successful reset() returns a
\* 4-element tuple whose observation has the shape of the observation space,
\* unless the worker crashed or the transport failed meanwhile.
C3_StepAfterResetReturnsTuple ==
    (/\ Finished("step") /\ InVocabulary(call.arg)
     /\ prev = [op |-> "reset", ok |-> TRUE]
     /\ ~fault) =>
        /\ result.kind = "value"
        /\ result.val.type = "tuple" /\ result.val.len = 4
        /\ result.val.shape = observation_space_shape

C3_Witness ==
    /\ Finished("step") /\ call.arg = 1
    /\ prev = [op |-> "reset", ok |-> TRUE]
    /\ result.kind = "value" /\ result.val.type = "tuple"

\* C4: a reset() begun while a conforming worker is alive, in CONTROL or in
\* EPISODE, returns an observation of the contracted shape (the whole tuple if
\* state_only is false) and leaves the worker in EPISODE with a fresh episode,
\* one that has applied the neutral action only; so does the reset() after it.
C4_ResetSucceedsFromControlAndEpisode ==
    (/\ Finished("reset")
     /\ call.alive /\ call.wmode \in {"CONTROL", "EPISODE"}
     /\ kind = "conforming" /\ ~fault) =>
        /\ result.kind = "value"
        /\ result.val.type = (IF call.arg THEN "ndarray" ELSE "tuple")
        /\ result.val.shape = observation_space_shape
        /\ wmode = "EPISODE" /\ steps = 1

\* the second of two successive resets has succeeded, begun in mid-episode
C4_Witness ==
    /\ Finished("reset") /\ result.kind = "value"
    /\ prev = [op |-> "reset", ok |-> TRUE]
    /\ call.alive /\ call.wmode = "EPISODE" /\ wmode = "EPISODE" /\ steps = 1

\* the call before this one was a stop() that returned
AfterStop == prev = [op |-> "stop", ok |-> TRUE]

C6_HandlesNullAfterStop ==
    (Finished("stop") /\ result.kind = "value") =>
        /\ context = "None" /\ socket = "None"
        /\ server = "None"

\* C7 as stated: _force_control_mode, facing a live worker that answers every
\* '_done' without the marker, comes to an end.
C7_ForceControlModeTerminates ==
    (pc = "force_control_mode_recv" /\ kind = "nomarker" /\ alive) ~> (pc # "force_control_mode_recv" \/ ~alive)

\* C8: get_stat() begun with the worker alive and the context open, the worker
\* still being alive when it ends and the transport not having failed, returns
\* the worker's reply to '_getstat' (the summary the worker holds) and leaves
\* the worker in CONTROL, an episode in progress having been terminated.
C8_GetStatReturnsWorkerReply ==
    (/\ Finished("get_stat")
     /\ call.alive /\ call.context = "open"
     /\ alive /\ ~fault) =>
        /\ result = [kind |-> "value", val |-> Stats(stat)]
        /\ log[Len(log)] = "_getstat"
        /\ wmode = "CONTROL"

\* get_stat() begun in mid-episode has returned the summary of that episode
C8_Witness ==
    /\ Finished("get_stat") /\ call.alive /\ call.wmode = "EPISODE" /\ ~fault
    /\ result.kind = "value" /\ result.val.type = "stats" /\ result.val.val = MaxStat
    /\ wmode = "CONTROL"

\* C9 as stated: when stop() ends, by return or by an exception, the context
\* has been released.
C9_StopReleasesOnEveryPath ==
    Finished("stop") => context # "open"

\* C10 as stated: when the assertion error of line 375 reaches the caller, the
\* worker has been stopped and the context released.
C10_ProtocolViolationStopsSession ==
    (pc = "idle" /\ result = [kind |-> "raise", val |-> Exc("AssertionError: response")]) =>
        /\ context # "open"
        /\ ~alive \/ wmode = "EXITING"

\* this step sends a request
Sends == req' # "none" /\ (req' # req \/ log' # log)

\* a request or its reply is in flight
InFlight == req # "none" \/ rep # NoMsg

\* C11: the client sends only when no request of its own is in flight and the
\* reply to the last one has been received (in that very step at the latest),
\* or that round trip ended in a transport error; having sent, it blocks in
\* recv_pyobj.  A request or a reply is in flight only while the client is
\* blocked so, and never both.
C11_OneOutstandingRequest ==
    /\ [][Sends => (req = "none" /\ rep' = NoMsg /\ pc' \in RecvLabels)]_vars
    /\ [](InFlight => pc \in RecvLabels)
    /\ [](~(req # "none" /\ rep # NoMsg))

\* a reset() has sent its third request, the replies to the first two received
C11_Witness ==
    /\ call.op = "reset" /\ pc = "step_recv" /\ Len(log) >= 3
    /\ req = "hold" /\ rep = NoMsg

\* the client waits in recv_pyobj for a reply of a worker that is dead
BlockedOnDeadWorker == pc \in RecvLabels /\ ~alive /\ rep = NoMsg

\* C12 as stated: a step, reset, get_stat or stop begun after the worker died,
\* the context being open, never waits for a reply of the dead worker (no
\* further worker dies during the call).
C12_DeathDetectedOnNextCall ==
    (/\ call.op \in {"step", "reset", "get_stat", "stop"}
     /\ ~call.alive /\ call.context = "open"
     /\ ~fault) =>
        ~BlockedOnDeadWorker

\* C13 as stated: a running start() is never stuck: the client thread can take
\* its next step (receive the reply, or fail with the startup error), or the
\* worker can still reply to the probe.
C13_StartNeverWaitsForever ==
    (call.op = "start" /\ pc # "idle") =>
        (ENABLED ClientStep \/ ENABLED WorkerReply)

\* the part of C13 the code keeps: start() sends the probe once and nothing
\* else, and when it returns the worker it spawned is in CONTROL if alive
StartProbesOnce ==
    call.op = "start" =>
        /\ pc \in {"idle", "start_server_recv"} => log = <<"ping!">>
        /\ (pc = "idle" /\ result.kind = "value" /\ alive) => wmode = "CONTROL"

ControlCommands == {"_reset", "_stop", "_getstat"}

\* C14: whenever the client sends '_reset', '_stop' or '_getstat', the request
\* sent just before it in the same call was '_done', the reply to that '_done'
\* (still held in self.server_response) is the control-mode text, and the
\* worker is in CONTROL.
C14_ControlCommandsOnlyInControl ==
    [][(Sends /\ req' \in ControlCommands) =>
          /\ log # <<>> /\ log[Len(log)] = "_done"
          /\ server_response = Str("CONTROL_MODE")
          /\ wmode = "CONTROL"]_vars

\* get_stat() begun in mid-episode has sent '_getstat' after two '_done'
C14_Witness ==
    /\ call.op = "get_stat" /\ call.wmode = "EPISODE"
    /\ req = "_getstat" /\ log = <<"_done", "_done", "_getstat">>

\* C15: a reset() that returned, begun on a live worker in CONTROL or EPISODE
\* and not hit by a crash or transport error, has sent one or more '_done',
\* then one '_reset', then the first action of the vocabulary, and nothing
\* else; what it returns is taken from the reply to that action, which is
\* the response the client holds.
C15_ResetMessageSequence ==
    (/\ Finished("reset") /\ result.kind = "value"
     /\ call.alive /\ call.wmode \in {"CONTROL", "EPISODE"}
     /\ ~fault) =>
        LET n == Len(log) IN
        /\ n >= 3
        /\ \A i \in 1 .. n - 2 : log[i] = "_done"
        /\ log[n - 1] = "_reset"
        /\ log[n] = portfolio_actions[1]
        /\ server_response.type = "tuple"
        /\ result.val = (IF call.arg THEN Obs(server_response.shape)
                                    ELSE server_response)

\* a reset() begun in mid-episode has returned after two '_done'
C15_Witness ==
    /\ Finished("reset") /\ result.kind = "value"
    /\ call.alive /\ call.wmode = "EPISODE" /\ ~fault
    /\ log = <<"_done", "_done", "_reset", "hold">>

\* C16: when reset() ends with the shape-mismatch error of line 333, the context
\* has been destroyed and the worker has acknowledged '_stop' or is dead; and
\* a reset() that returns never returns an observation of another shape than
\* the observation space's.
C16_ShapeMismatchStopsWorker ==
    /\ (Finished("reset") /\ result = [kind |-> "raise",
                                         val |-> Exc("AssertionError: shape")]) =>
          /\ context = "closed" /\ socket = "closed"
          /\ ~alive \/ wmode = "EXITING"
    /\ (Finished("reset") /\ result.kind = "value") =>
          result.val.shape = observation_space_shape
    /\ (call.op = "reset" /\ pc = "reset_raise") =>
          /\ server_response.shape # observation_space_shape
          /\ context = "closed"

\* a reset() against a worker of another shape has shut it down and raised
C16_Witness ==
    /\ Finished("reset") /\ kind = "badshape"
    /\ result = [kind |-> "raise", val |-> Exc("AssertionError: shape")]
    /\ log[Len(log)] = "_stop" /\ context = "closed" /\ wmode = "EXITING"

\* C17 as stated: a reset() begun right after a stop() that shut the worker down
\* gracefully (the context is destroyed, the worker has acknowledged '_stop'
\* and may still be alive) starts a new worker and, the new worker conforming
\* and nothing failing, returns an observation.
C17_ResetAfterGracefulStopRestarts ==
    (/\ AfterStop /\ Finished("reset")
     /\ call.wmode = "EXITING" /\ call.context = "closed"
     /\ kind = "conforming" /\ ~fault) =>
        /\ result.kind = "value"
        /\ log # <<>> /\ log[1] = "ping!"

\* The client believes its worker alive from the spawn of _start_server until
\* it has stopped the worker itself; _stop_server ends on both of its paths
\* with the destruction of the context, which only a new spawn replaces.
BelievedAlive == server # "None" /\ context # "closed"

\* C18 as stated: between operations the channel handle is non-null if and
\* only if a worker handle believed alive exists.
C18_ChannelIffWorkerBelievedAlive ==
    pc = "idle" => ((socket # "None") <=> BelievedAlive)

\* C19: _force_control_mode checks its preconditions before looping. Entered
\* with the worker handle missing or the worker not alive, or with the context
\* missing or closed, it returns False at once, leaves the matching diagnostic
\* in server_response (the no-worker one first) and sends nothing.
C19_ForceControlModeShortCircuits ==
    [][(/\ pc = "force_control_mode" /\ pc' # pc
        /\ \/ server = "None" \/ ~alive
           \/ context \in {"None", "closed"}) =>
          /\ ret' = Bool(FALSE)
          /\ server_response' =
                 IF server = "None" \/ ~alive
                 THEN Str("No running server found.")
                 ELSE Str("No network connection found.")
          /\ ~Sends
          /\ req' = req /\ rep' = rep /\ log' = log /\ attempt' = attempt
          /\ pc' \notin RecvLabels]_vars

\* _stop_server has just been told that its dead worker is not running
C19_Witness ==
    /\ call.op = "stop" /\ pc = "stop_server_forced"
    /\ server # "None" /\ ~alive /\ context = "open"
    /\ ret = Bool(FALSE)
    /\ server_response = Str("No running server found.")
    /\ log = <<>> /\ req = "none"

\* live worker processes this session has spawned
LiveWorkers == others + (IF alive THEN 1 ELSE 0)

====
